---- MODULE Spec2Model ----
(***************************************************************************)
(* Model of precommit.py: main() resolves the repository root and its src  *)
(* directory, probes five tools with `which`, then runs the five tools in  *)
(* a fixed order with subprocess.check_call, printing a progress line      *)
(* before each and a final success line.                                   *)
(*                                                                         *)
(* The external world is modelled by what main() can observe of it: the    *)
(* location of the script (__file__), the tools that resolve on the        *)
(* execution path, the exit status of each child process, and the files    *)
(* of the source directory, which the formatter may rewrite.  A child      *)
(* process is started by one action and reaped by another, so that a       *)
(* child that never exits is a behaviour of the model.                     *)
(***************************************************************************)
EXTENDS Integers, Sequences, FiniteSets, TLC

\* Bounds of the model ----------------------------------------------------

\* Directory depth of the script's location: __file__ has at most MaxDepth
\* directory components before "precommit.py".
MaxDepth == 2
\* Child processes exit with a status in -MaxSignal .. MaxStatus; a negative
\* status is subprocess's encoding of death by a signal.
MaxStatus == 2
MaxSignal == 1
\* The source directory holds MaxFiles files the formatter may rewrite.
MaxFiles == 2

Statuses == (0 - MaxSignal) .. MaxStatus

\* Paths (pathlib) --------------------------------------------------------

\* A path is its anchor ("/" when absolute, "" when relative) and its parts.
Segments == {"repo", "src"}

RECURSIVE DirsOfDepth(_)
DirsOfDepth(n) ==
    IF n = 0 THEN {<<>>}
    ELSE {Append(d, s) : d \in DirsOfDepth(n - 1), s \in Segments}

Dirs == UNION {DirsOfDepth(n) : n \in 0 .. MaxDepth}

\* The values __file__ may have: precommit.py in some directory, given
\* absolutely or relative to the current directory.
Files == {[anchor |-> a, parts |-> Append(d, "precommit.py")] :
             a \in {"/", ""}, d \in Dirs}

\* The value of a name that is not bound yet.
Unbound == [anchor |-> "?", parts |-> <<>>]

\* PurePath.parent: the path without its last part; a path without parts is
\* its own parent.
parent(p) ==
    IF p.parts = <<>> THEN p
    ELSE [anchor |-> p.anchor, parts |-> SubSeq(p.parts, 1, Len(p.parts) - 1)]

\* PurePath.__truediv__ with a relative one-part string.
joinpath(p, seg) == [anchor |-> p.anchor, parts |-> Append(p.parts, seg)]

RECURSIVE JoinSlash(_)
JoinSlash(parts) ==
    IF parts = <<>> THEN ""
    ELSE IF Len(parts) = 1 THEN parts[1]
    ELSE parts[1] \o "/" \o JoinSlash(Tail(parts))

\* PurePath.as_posix: the string form; the empty relative path is ".".
as_posix(p) ==
    IF p.anchor = "" /\ p.parts = <<>> THEN "."
    ELSE p.anchor \o JoinSlash(p.parts)

\* The tools ---------------------------------------------------------------

NSteps == 5

Last(s) == s[Len(s)]

\* The executables probed at lines 13-21, in the order of the probes.
ProbedToolsSwapMut ==
    <<"elm-format", "elm-docstyle", "elm-analyse", "elm-doc-test", "elm-test">>

ProbedTools ==
    <<"elm-format", "elm-analyse", "elm-docstyle", "elm-doc-test", "elm-test">>

WhichArgv(i) == <<"which", ProbedTools[i]>>

\* The argument of FileNotFoundError at lines 14-22, as the pieces of the
\* message: the tool, its reference, and the trailing words.
NotFoundMessageDocstyleMut(i) ==
    CASE i = 1 -> <<"elm-format", "https://github.com/avh4/elm-format", "not found.">>
      [] i = 2 -> <<"elm-analyse", "https://stil4m.github.io/elm-analyse/", "not found.">>
      [] i = 3 -> <<"elm-doc-test", "https://www.npmjs.com/package/elm-doc-test", "not found.">>
      [] i = 4 -> <<"elm-doc-test", "https://www.npmjs.com/package/elm-doc-test", "not found.">>
      [] i = 5 -> <<"elm-test", "https://www.npmjs.com/package/elm-test", "not found.">>

NotFoundMessage(i) ==
    CASE i = 1 -> <<"elm-format", "https://github.com/avh4/elm-format", "not found.">>
      [] i = 2 -> <<"elm-analyse", "https://stil4m.github.io/elm-analyse/", "not found.">>
      [] i = 3 -> <<"elm-docstyle", "https://www.npmjs.com/package/elm-docstyle", "not found.">>
      [] i = 4 -> <<"elm-doc-test", "https://www.npmjs.com/package/elm-doc-test", "not found.">>
      [] i = 5 -> <<"elm-test", "https://www.npmjs.com/package/elm-test", "not found.">>

\* The lines printed before each step (lines 24, 27, 30, 35, 38).
ProgressLineSwapMut(i) ==
    CASE i = 1 -> "elm-format'ing..."
      [] i = 2 -> "elm-analyse'ing..."
      [] i = 3 -> "elm-docstyle'ing..."
      [] i = 4 -> "elm-test'ing..."
      [] i = 5 -> "elm-doc-test generating..."

ProgressLine(i) ==
    CASE i = 1 -> "elm-format'ing..."
      [] i = 2 -> "elm-analyse'ing..."
      [] i = 3 -> "elm-docstyle'ing..."
      [] i = 4 -> "elm-doc-test generating..."
      [] i = 5 -> "elm-test'ing..."

SuccessLine == "All precommit checks succeeded."

VARIABLES
    file,         \* __file__: where the script is
    pc,           \* the statement main() is at
    k,            \* which probe (pc = which*) or step (pc = print, call*)
    root_dir,     \* local of main()
    source_dir,   \* local of main()
    calls,        \* the child processes started so far, in order
    returncodes,  \* the exit statuses of those that have exited, in order
    stdout,       \* the lines main() has printed
    raised,       \* << >>, or the exception that left main()
    exit_status,  \* << >> while the interpreter runs, then its exit status
    tree,         \* the contents of the files under the source directory
    path          \* the executables that resolve on the execution path

vars == <<file, pc, k, root_dir, source_dir, calls, returncodes, stdout,
          raised, exit_status, tree, path>>

\* The executables the run is concerned with.
Executables ==
    {"elm-format", "elm-analyse", "elm-docstyle", "elm-doc-test", "elm-test"}

\* `which <tool>` exits with 0 when the tool resolves on the execution path
\* and with a positive status when it does not.
WhichStatuses(tool) ==
    IF tool \in path THEN {0} ELSE {rc \in Statuses : rc > 0}

\* The files under the source directory.  A file holds what it held when the
\* run began ("original") or what the formatter wrote ("reformatted").
SourceFiles == 1 .. MaxFiles

OriginalTree == [f \in SourceFiles |-> "original"]

\* The command lines of the five steps (lines 25, 28, 31-33, 36, 39).
ToolArgvRootMut(i) ==
    CASE i = 1 -> <<"elm-format", "--elm-version=0.18", as_posix(root_dir), "--yes">>
      [] i = 2 -> <<"elm-analyse">>
      [] i = 3 -> <<"elm-docstyle", ".", "--config_path", "elm-docstyle.json", "--check_all">>
      [] i = 4 -> <<"elm-doc-test">>
      [] i = 5 -> <<"elm-test">>

ToolArgvSwapMut(i) ==
    CASE i = 1 -> <<"elm-format", "--elm-version=0.18", as_posix(source_dir), "--yes">>
      [] i = 2 -> <<"elm-docstyle", ".", "--config_path", "elm-docstyle.json", "--check_all">>
      [] i = 3 -> <<"elm-analyse">>
      [] i = 4 -> <<"elm-doc-test">>
      [] i = 5 -> <<"elm-test">>

ToolArgv(i) ==
    CASE i = 1 -> <<"elm-format", "--elm-version=0.18", as_posix(source_dir), "--yes">>
      [] i = 2 -> <<"elm-analyse">>
      [] i = 3 -> <<"elm-docstyle", ".", "--config_path", "elm-docstyle.json", "--check_all">>
      [] i = 4 -> <<"elm-doc-test">>
      [] i = 5 -> <<"elm-test">>

\* The cwd= argument of each step: << >> when none is given (the child
\* inherits the runner's working directory), else the one directory.
ToolCwdTestMut(i) ==
    IF i = 1 \/ i = 5 THEN <<>> ELSE <<as_posix(root_dir)>>

ToolCwd(i) ==
    IF i = 1 THEN <<>> ELSE <<as_posix(root_dir)>>

\* subprocess: a started child is recorded with its command line, its
\* working directory and where its standard output goes.
Popen(argv, cwd, out) ==
    calls' = Append(calls, [argv |-> argv, cwd |-> cwd, stdout |-> out])

\* check_call raises CalledProcessError exactly on a non-zero status;
\* the probes compare the status of call() with 0 themselves.
NonZeroPositiveMut(rc) == rc > 0

NonZero(rc) == rc # 0

NoException == <<>>

FileNotFoundError(msg) ==
    <<[type |-> "FileNotFoundError", message |-> msg, returncode |-> 0, cmd |-> <<>>]>>

CalledProcessError(rc, cmd) ==
    <<[type |-> "CalledProcessError", message |-> <<>>, returncode |-> rc, cmd |-> cmd]>>

\* The interpreter's exit status once main() is left: 0 on return, 1 when
\* an exception propagates out of the module (lines 44-45 catch nothing).
ExitStatusPropagateMut(exc) ==
    IF exc = NoException THEN 0
    ELSE IF exc[1].type = "CalledProcessError" THEN exc[1].returncode
    ELSE 1

ExitStatus(exc) == IF exc = NoException THEN 0 ELSE 1

\* An exception leaves main(): nothing catches it, the interpreter exits.
Raise(exc) ==
    /\ raised' = exc
    /\ exit_status' = <<ExitStatus(exc)>>
    /\ pc' = "failed"

Init ==
    /\ file \in Files
    /\ pc = "resolve"
    /\ k = 1
    /\ root_dir = Unbound
    /\ source_dir = Unbound
    /\ calls = <<>>
    /\ returncodes = <<>>
    /\ stdout = <<>>
    /\ raised = NoException
    /\ exit_status = <<>>
    /\ tree = OriginalTree
    /\ path \in SUBSET Executables

\* Lines 10-11.
ResolvePaths ==
    /\ pc = "resolve"
    /\ root_dir' = parent(file)
    /\ source_dir' = joinpath(parent(file), "src")
    /\ pc' = "which"
    /\ UNCHANGED <<file, path, tree, k, calls, returncodes, stdout, raised, exit_status>>

\* Lines 13, 15, 17, 19, 21: subprocess.call starts `which <tool>`.
WhichCallNoWaitMut ==
    /\ pc = "which"
    /\ Popen(WhichArgv(k), <<>>, "DEVNULL")
    /\ IF k < NSteps
       THEN pc' = "which" /\ k' = k + 1
       ELSE pc' = "which_wait" /\ k' = k
    /\ UNCHANGED <<file, path, tree, root_dir, source_dir, returncodes, stdout,
                   raised, exit_status>>

WhichCall ==
    /\ pc = "which"
    /\ Popen(WhichArgv(k), <<>>, "DEVNULL")
    /\ pc' = "which_wait"
    /\ UNCHANGED <<file, path, tree, k, root_dir, source_dir, returncodes, stdout, raised,
                   exit_status>>

\* Lines 13-22: the probe exits; its status is compared with 0.
WhichReturn ==
    /\ pc = "which_wait"
    /\ \E rc \in WhichStatuses(Last(calls).argv[2]) :
          /\ returncodes' = Append(returncodes, rc)
          /\ IF NonZero(rc)
             THEN /\ Raise(FileNotFoundError(NotFoundMessage(k)))
                  /\ k' = k
             ELSE /\ IF k < NSteps
                     THEN pc' = "which" /\ k' = k + 1
                     ELSE pc' = "print" /\ k' = 1
                  /\ UNCHANGED <<raised, exit_status>>
    /\ UNCHANGED <<file, path, tree, root_dir, source_dir, calls, stdout>>

\* Lines 24, 27, 30, 35, 38.
PrintProgressSkipMut ==
    /\ pc = "print"
    /\ stdout' = IF k = 4 THEN stdout ELSE Append(stdout, ProgressLine(k))
    /\ pc' = "call"
    /\ UNCHANGED <<file, path, tree, k, root_dir, source_dir, calls, returncodes, raised,
                   exit_status>>

PrintProgress ==
    /\ pc = "print"
    /\ stdout' = Append(stdout, ProgressLine(k))
    /\ pc' = "call"
    /\ UNCHANGED <<file, path, tree, k, root_dir, source_dir, calls, returncodes, raised,
                   exit_status>>

\* Lines 25, 28, 31-33, 36, 39: subprocess.check_call starts the tool.
ToolCall ==
    /\ pc = "call"
    /\ Popen(ToolArgv(k), ToolCwd(k), "inherit")
    /\ pc' = "call_wait"
    /\ UNCHANGED <<file, path, tree, k, root_dir, source_dir, returncodes, stdout, raised,
                   exit_status>>

\* Line 25: the formatter, started with --yes, rewrites a file of the source
\* directory in place while it runs.
FormatterRewrites ==
    /\ pc = "call_wait"
    /\ k = 1
    /\ \E f \in SourceFiles :
          /\ tree[f] = "original"
          /\ tree' = [tree EXCEPT ![f] = "reformatted"]
    /\ UNCHANGED <<file, path, pc, k, root_dir, source_dir, calls, returncodes,
                   stdout, raised, exit_status>>

\* Lines 25-39: the tool exits; check_call inspects its status.
ToolReturnRollbackMut ==
    /\ pc = "call_wait"
    /\ \E rc \in Statuses :
          /\ returncodes' = Append(returncodes, rc)
          /\ IF NonZero(rc)
             THEN /\ Raise(CalledProcessError(rc, ToolArgv(k)))
                  /\ k' = k
                  /\ tree' = OriginalTree
             ELSE /\ IF k < NSteps
                     THEN pc' = "print" /\ k' = k + 1
                     ELSE pc' = "print_success" /\ k' = k
                  /\ UNCHANGED <<raised, exit_status, tree>>
    /\ UNCHANGED <<file, path, root_dir, source_dir, calls, stdout>>

ToolReturnTimeoutMut ==
    /\ pc = "call_wait"
    /\ \/ \E rc \in Statuses :
             /\ returncodes' = Append(returncodes, rc)
             /\ IF NonZero(rc)
                THEN /\ Raise(CalledProcessError(rc, ToolArgv(k)))
                     /\ k' = k
                ELSE /\ IF k < NSteps
                        THEN pc' = "print" /\ k' = k + 1
                        ELSE pc' = "print_success" /\ k' = k
                     /\ UNCHANGED <<raised, exit_status>>
       \/ /\ Raise(<<[type |-> "TimeoutExpired", message |-> <<>>,
                       returncode |-> 0, cmd |-> ToolArgv(k)]>>)
          /\ UNCHANGED <<k, returncodes>>
    /\ UNCHANGED <<file, path, tree, root_dir, source_dir, calls, stdout>>

ToolReturnRetryMut ==
    /\ pc = "call_wait"
    /\ \E rc \in Statuses :
          /\ returncodes' = Append(returncodes, rc)
          /\ IF NonZero(rc)
             THEN IF Len(calls) < 2 * NSteps + 1
                  THEN /\ pc' = "call"
                       /\ UNCHANGED <<k, raised, exit_status>>
                  ELSE /\ Raise(CalledProcessError(rc, ToolArgv(k)))
                       /\ k' = k
             ELSE /\ IF k < NSteps
                     THEN pc' = "print" /\ k' = k + 1
                     ELSE pc' = "print_success" /\ k' = k
                  /\ UNCHANGED <<raised, exit_status>>
    /\ UNCHANGED <<file, path, tree, root_dir, source_dir, calls, stdout>>

ToolReturnCallMut ==
    /\ pc = "call_wait"
    /\ \E rc \in Statuses :
          /\ returncodes' = Append(returncodes, rc)
          /\ IF NonZero(rc) /\ k # 2
             THEN /\ Raise(CalledProcessError(rc, ToolArgv(k)))
                  /\ k' = k
             ELSE /\ IF k < NSteps
                     THEN pc' = "print" /\ k' = k + 1
                     ELSE pc' = "print_success" /\ k' = k
                  /\ UNCHANGED <<raised, exit_status>>
    /\ UNCHANGED <<file, path, tree, root_dir, source_dir, calls, stdout>>

ToolReturn ==
    /\ pc = "call_wait"
    /\ \E rc \in Statuses :
          /\ returncodes' = Append(returncodes, rc)
          /\ IF NonZero(rc)
             THEN /\ Raise(CalledProcessError(rc, ToolArgv(k)))
                  /\ k' = k
             ELSE /\ IF k < NSteps
                     THEN pc' = "print" /\ k' = k + 1
                     ELSE pc' = "print_success" /\ k' = k
                  /\ UNCHANGED <<raised, exit_status>>
    /\ UNCHANGED <<file, path, tree, root_dir, source_dir, calls, stdout>>

\* Line 41, then main() returns and the interpreter exits.
PrintSuccess ==
    /\ pc = "print_success"
    /\ stdout' = Append(stdout, SuccessLine)
    /\ exit_status' = <<ExitStatus(NoException)>>
    /\ pc' = "done"
    /\ UNCHANGED <<file, path, tree, k, root_dir, source_dir, calls, returncodes, raised>>

Next ==
    \/ ResolvePaths
    \/ WhichCall
    \/ WhichReturn
    \/ PrintProgress
    \/ ToolCall
    \/ FormatterRewrites
    \/ ToolReturn
    \/ PrintSuccess

Spec == Init /\ [][Next]_vars

\* The interpreter keeps executing main(): a statement that can run does
\* run.  Nothing is assumed of the children: whether a child exits is up to
\* the child.
LiveSpec ==
    /\ Init /\ [][Next]_vars
    /\ WF_vars(ResolvePaths)
    /\ WF_vars(WhichCall)
    /\ WF_vars(PrintProgress)
    /\ WF_vars(ToolCall)
    /\ WF_vars(PrintSuccess)

\* ------------------------------------------------------------------------
\* Properties
\* ------------------------------------------------------------------------

\* The five required tools and the fixed order of the steps, as the
\* specification lists them.
RequiredTools ==
    <<"elm-format", "elm-analyse", "elm-docstyle", "elm-doc-test", "elm-test">>

RequiredToolSet == {RequiredTools[i] : i \in 1 .. 5}

ExpectedProgress ==
    <<"elm-format'ing...", "elm-analyse'ing...", "elm-docstyle'ing...",
      "elm-doc-test generating...", "elm-test'ing...">>

IsProbe(c) == c.argv[1] = "which"

\* The tool invocations among the child processes, in the order made.
ToolCalls == SelectSeq(calls, LAMBDA c : ~IsProbe(c))
ProbeCalls == SelectSeq(calls, IsProbe)

\* The indices of the children that have exited.
Exited == 1 .. Len(returncodes)

AllProbesPassed ==
    \A t \in RequiredToolSet :
        \E i \in Exited : calls[i].argv = <<"which", t>> /\ returncodes[i] = 0

\* Some tool invocation has exited with a non-zero status; it is the i-th child.
ToolFailedAt(i) == i \in Exited /\ ~IsProbe(calls[i]) /\ returncodes[i] # 0
ProbeFailedAt(i) == i \in Exited /\ IsProbe(calls[i]) /\ returncodes[i] # 0

\* C1: whichever of the five tools has a probe that returns non-zero, main()
\* has failed with a FileNotFoundError whose message names that tool, and no
\* tool has been invoked; a tool is invoked only when all five probes of the
\* five required tools have returned zero.
C1_MissingToolFailsBeforeAnyTool ==
    /\ \A i \in Exited :
          ProbeFailedAt(i) =>
              /\ pc = "failed"
              /\ raised # NoException
              /\ raised[1].type = "FileNotFoundError"
              /\ raised[1].message[1] = calls[i].argv[2]
              /\ calls[i].argv[2] \in RequiredToolSet
              /\ ToolCalls = <<>>
    /\ ToolCalls # <<>> => AllProbesPassed

\* C1 witness: the static-analysis tool is missing and the others before it
\* are present.
C1_Witness ==
    /\ Len(returncodes) = 2
    /\ calls[2].argv = <<"which", "elm-analyse">>
    /\ returncodes[1] = 0
    /\ returncodes[2] # 0
    /\ pc = "failed"

\* C2: fail-fast: once the invocation of a step has returned non-zero after
\* all probes passed, it is the last child process of the run: no later step
\* is invoked.
C2_FailFast ==
    \A i \in Exited :
        ToolFailedAt(i) => /\ AllProbesPassed
                           /\ i = Len(calls)
                           /\ pc = "failed"

\* C2 witness: the formatter has failed after five passed probes.
C2_Witness ==
    /\ AllProbesPassed
    /\ Len(returncodes) = 6
    /\ calls[6].argv[1] = "elm-format"
    /\ returncodes[6] # 0

\* C3: the tool invocations form a prefix of the fixed sequence formatter,
\* static-analysis, doc-style, doc-example-test generator, unit-test runner,
\* and a tool is invoked only after every child before it has exited with
\* status zero.
C3_InvocationsArePrefixInOrder ==
    /\ Len(ToolCalls) <= 5
    /\ \A j \in 1 .. Len(ToolCalls) : ToolCalls[j].argv[1] = RequiredTools[j]
    /\ \A i \in 1 .. Len(calls) :
          ~IsProbe(calls[i]) =>
              \A j \in 1 .. i - 1 : j \in Exited /\ returncodes[j] = 0

\* C3 witness: all five tools have been invoked.
C3_Witness ==
    /\ Len(ToolCalls) = 5
    /\ ToolCalls[5].argv[1] = "elm-test"

AllTenReturnedZero ==
    /\ Len(returncodes) = 10
    /\ \A i \in Exited : returncodes[i] = 0

\* C4: when the five probes and the five invocations have all returned zero
\* the run is at its successful end: once it has exited, its status is 0 and
\* its output is exactly the five progress lines in step order followed by
\* the success line; and the success line is printed only when all five
\* invocations returned zero.
C4_FullSuccess ==
    /\ AllTenReturnedZero => pc \in {"print_success", "done"}
    /\ (AllTenReturnedZero /\ exit_status # <<>>) =>
          /\ pc = "done"
          /\ exit_status = <<0>>
          /\ stdout = Append(ExpectedProgress, "All precommit checks succeeded.")
    /\ (\E n \in 1 .. Len(stdout) : stdout[n] = "All precommit checks succeeded.") =>
          /\ AllTenReturnedZero
          /\ Len(ToolCalls) = 5

\* C4 witness: a run that has ended in success.
C4_Witness ==
    /\ pc = "done"
    /\ AllTenReturnedZero
    /\ Len(stdout) = 6

\* C5 as stated: the exit status is 0 exactly on full success, and when a
\* tool invocation exits non-zero the runner's exit status is that
\* invocation's status.
C5_ExitStatusIsToolStatus ==
    /\ exit_status = <<0>> <=> (pc = "done" /\ AllTenReturnedZero)
    /\ \A i \in Exited :
          ToolFailedAt(i) => exit_status = <<returncodes[i]>>

\* C5 as amended: the exit status is 0 exactly on full success; when a tool
\* invocation exits non-zero the runner exits with the interpreter's status
\* for an uncaught exception, 1, the same as for a missing tool, and the
\* invocation's own status is carried by the CalledProcessError only.
C5_ExitStatusIsGenericFailure ==
    /\ exit_status = <<0>> <=> (pc = "done" /\ AllTenReturnedZero)
    /\ \A i \in Exited :
          /\ ToolFailedAt(i) =>
                /\ exit_status = <<1>>
                /\ raised # NoException
                /\ raised[1].type = "CalledProcessError"
                /\ raised[1].returncode = returncodes[i]
          /\ ProbeFailedAt(i) => exit_status = <<1>>

\* C5 witness: a tool has exited with a status other than 0 and 1.
C5_Witness ==
    /\ pc = "failed"
    /\ Len(returncodes) > 5
    /\ Last(returncodes) = 2
    /\ exit_status = <<1>>

\* C6: whenever the formatter is invoked, its command line is the formatter,
\* the language-version flag, the source subdirectory (the script's directory
\* joined with "src", not the script's directory itself) and the
\* non-interactive in-place flag.
C6_FormatterTargetsSourceDir ==
    \A i \in 1 .. Len(calls) :
        calls[i].argv[1] = "elm-format" =>
            /\ calls[i].argv = <<"elm-format", "--elm-version=0.18",
                                 as_posix(joinpath(parent(file), "src")), "--yes">>
            /\ calls[i].argv[3] # as_posix(parent(file))

\* C6 witness: the formatter is invoked by the script at /repo/precommit.py,
\* on /repo/src.
C6_Witness ==
    /\ file = [anchor |-> "/", parts |-> <<"repo", "precommit.py">>]
    /\ Len(calls) = 6
    /\ calls[6].argv = <<"elm-format", "--elm-version=0.18", "/repo/src", "--yes">>

\* C7: every invocation of the static-analysis tool, the doc-style tool, the
\* doc-example-test generator and the unit-test runner has the directory of
\* the script as its working directory; and once computed, the root and
\* source paths never change (nor does the script's location).
C7_RootIsWorkingDirectory ==
    /\ [](\A i \in 1 .. Len(calls) :
             calls[i].argv[1] \in {"elm-analyse", "elm-docstyle", "elm-doc-test", "elm-test"}
                 => calls[i].cwd = <<as_posix(parent(file))>>)
    /\ [](pc # "resolve" => /\ root_dir = parent(file)
                            /\ source_dir = joinpath(parent(file), "src"))
    /\ [][/\ file' = file
          /\ pc # "resolve" => (root_dir' = root_dir /\ source_dir' = source_dir)]_vars

\* C7 witness: the unit-test runner is invoked by the script at
\* repo/src/precommit.py, in repo/src.
C7_Witness ==
    /\ file = [anchor |-> "", parts |-> <<"repo", "src", "precommit.py">>]
    /\ Len(calls) = 10
    /\ calls[10].argv = <<"elm-test">>
    /\ calls[10].cwd = <<"repo/src">>
    /\ calls[7].cwd = <<"repo/src">>

\* C8: the progress line of a step is printed before the step's tool is
\* invoked, so the j-th tool invocation finds the first j progress lines
\* printed; and when step j has failed, the output is exactly the progress
\* lines of steps 1..j.
C8_ProgressBeforeInvocation ==
    /\ \A j \in 1 .. Len(ToolCalls) :
          /\ Len(stdout) >= j
          /\ stdout[j] = ExpectedProgress[j]
    /\ \A i \in Exited :
          ToolFailedAt(i) =>
              stdout = SubSeq(ExpectedProgress, 1, Len(ToolCalls))

\* C8 witness: the doc-style check has failed; the output ends with its
\* progress line.
C8_Witness ==
    /\ pc = "failed"
    /\ Len(ToolCalls) = 3
    /\ Last(returncodes) # 0
    /\ stdout = <<"elm-format'ing...", "elm-analyse'ing...", "elm-docstyle'ing...">>

\* The control state of the specification's state machine.
Chain ==
    <<"CheckingTools", "Formatting", "Analysing", "CheckingDocStyle",
      "GeneratingDocTests", "RunningTests", "Done">>

State ==
    CASE pc \in {"resolve", "which", "which_wait"} -> "CheckingTools"
      [] pc \in {"print", "call", "call_wait"} -> Chain[k + 1]
      [] pc \in {"print_success", "done"} -> "Done"
      [] pc = "failed" -> "Failed"

Rank(s) == IF s = "Failed" THEN 8 ELSE CHOOSE n \in 1 .. 7 : Chain[n] = s

\* A child process exits with a non-zero status in this step.
FailStep == Next /\ pc' = "failed"

\* C9: the control state changes only from a state of the chain to its
\* successor, when a child has exited with status zero, or to Failed, when
\* a child has exited with a non-zero status; Done and Failed are never
\* left; the rank of the state never decreases, so no state is revisited;
\* and wherever the runner waits for a tool, or for the probe of a tool that
\* is missing, the step to Failed is possible.
C9_LinearChain ==
    /\ [][State' # State =>
            /\ State \notin {"Done", "Failed"}
            /\ Rank(State') > Rank(State)
            /\ returncodes' # returncodes
            /\ \/ State' = Chain[Rank(State) + 1] /\ Last(returncodes') = 0
               \/ State' = "Failed" /\ Last(returncodes') # 0]_vars
    /\ [][(returncodes' # returncodes /\ Last(returncodes') # 0)
              => State' = "Failed"]_vars
    /\ []((\/ pc = "call_wait"
           \/ pc = "which_wait" /\ Last(calls).argv[2] \notin path)
              => ENABLED FailStep)

\* C9 witness: Failed has been reached from RunningTests.
C9_Witness ==
    /\ State = "Failed"
    /\ Len(ToolCalls) = 5

\* Failed is reached from each of the other non-terminal states too.
C9_FailedFromCheckingTools == State = "Failed" /\ ToolCalls = <<>>
C9_FailedFromFormatting == State = "Failed" /\ Len(ToolCalls) = 1
C9_FailedFromAnalysing == State = "Failed" /\ Len(ToolCalls) = 2
C9_FailedFromCheckingDocStyle == State = "Failed" /\ Len(ToolCalls) = 3
C9_FailedFromGeneratingDocTests == State = "Failed" /\ Len(ToolCalls) = 4

SomeFailure == \E i \in Exited : returncodes[i] # 0

\* C10: no two child processes of a run have the same command (each probe
\* and each tool is invoked at most once), and once a probe or an invocation
\* has returned non-zero the runner starts no child, reaps none and prints
\* nothing more.
C10_NoRetryNoRecovery ==
    /\ [](\A i, j \in 1 .. Len(calls) :
             (calls[i].argv[1] = calls[j].argv[1]
                 /\ (IsProbe(calls[i]) => calls[i].argv[2] = calls[j].argv[2]))
             => i = j)
    /\ [](Len(ProbeCalls) <= 5 /\ Len(ToolCalls) <= 5)
    /\ [][SomeFailure => /\ calls' = calls
                         /\ returncodes' = returncodes
                         /\ stdout' = stdout]_vars
    /\ [](SomeFailure => ~ENABLED Next)

\* C10 witness: the unit-test runner, the last of ten children, has failed.
C10_Witness ==
    /\ SomeFailure
    /\ Len(calls) = 10
    /\ pc = "failed"

\* A child process is running: started and not yet exited.
Running == Len(calls) - Len(returncodes)

FormatterRunning ==
    /\ Running = 1
    /\ Last(calls).argv[1] = "elm-format"

\* C11: no rollback: the source files change only while the formatter
\* runs, by the formatter's own writes; no step of the runner changes them,
\* in particular not the step in which a tool's failure ends the run, so a
\* run that fails after the formatter leaves the files as the formatter
\* left them; and while no tool has been invoked (so whenever a probe has
\* failed) the files are as they were when the run began.
C11_NoRollback ==
    /\ [][tree' # tree => (FormatterRunning /\ pc' = pc /\ calls' = calls
                              /\ returncodes' = returncodes)]_vars
    /\ [][(pc' # pc) => tree' = tree]_vars
    /\ [](ToolCalls = <<>> => tree = OriginalTree)
    /\ [](\A i \in Exited : ProbeFailedAt(i) => tree = OriginalTree)
    /\ []((pc = "failed" /\ ToolCalls # <<>>) =>
             ~ENABLED (Next /\ tree' # tree))

\* C11 witness: the formatter rewrote every source file and succeeded,
\* the static-analysis step then failed, and the files are still rewritten.
C11_Witness ==
    /\ pc = "failed"
    /\ Len(ToolCalls) = 2
    /\ returncodes[6] = 0
    /\ returncodes[7] # 0
    /\ \A f \in SourceFiles : tree[f] = "reformatted"

\* C12: external invocations never overlap: at most one child process is
\* running at any time; a child is started only when every child before it
\* has exited and its status has been found to be zero; and while a child
\* runs the runner is waiting for it: it starts nothing and prints nothing.
C12_NoOverlap ==
    /\ [](Running \in {0, 1})
    /\ [](Running = 1 <=> pc \in {"which_wait", "call_wait"})
    /\ [][calls' # calls =>
            /\ Running = 0
            /\ Len(calls') = Len(calls) + 1
            /\ \A i \in 1 .. Len(calls) : i \in Exited /\ returncodes[i] = 0]_vars
    /\ [][Running = 1 => (calls' = calls /\ stdout' = stdout)]_vars

\* C12 witness: the static-analysis tool is running, the only child running,
\* after the five probes and the formatter have exited.
C12_Witness ==
    /\ Len(calls) = 7
    /\ Len(returncodes) = 6
    /\ Last(calls).argv[1] = "elm-analyse"
    /\ pc = "call_wait"

Terminal == pc \in {"done", "failed"}

\* Every child process that is started eventually exits.
EveryChildExits == [](Running = 1 => <>(Running = 0))

\* Some child process, once started, never exits.
SomeChildHangs == <>[](Running = 1)

\* C13: termination: if every child process started by the runner eventually
\* exits, the run eventually reaches Done or Failed, having started at most
\* five probes and five tools, and then stays in that one terminal state;
\* if some child never exits, the runner never reaches a terminal state:
\* while a child runs, nothing but the child's exit moves the runner on.
C13_Termination ==
    /\ EveryChildExits => <>Terminal
    /\ SomeChildHangs => []~Terminal
    /\ [](Len(ProbeCalls) <= 5 /\ Len(ToolCalls) <= 5)
    /\ [](Terminal => (Running = 0 /\ exit_status # <<>>))
    /\ [][Terminal => pc' = pc]_vars
    /\ [](Running = 1 => ~ENABLED (Next /\ pc' # pc /\ returncodes' = returncodes))

\* C13 witness: a run that has reached Done after all ten children exited.
C13_Witness ==
    /\ pc = "done"
    /\ Len(calls) = 10
    /\ Running = 0
    /\ exit_status = <<0>>

\* C13, a second case: the doc-example-test generator is running and the
\* runner can do nothing but wait for it.
C13_WaitingForChild ==
    /\ Running = 1
    /\ Last(calls).argv[1] = "elm-doc-test"
    /\ ~Terminal

SomeToolMissing == \E t \in RequiredToolSet : t \notin path

\* The first of the required tools, in check order, that is missing.
FirstMissing ==
    CHOOSE i \in 1 .. 5 :
        /\ RequiredTools[i] \notin path
        /\ \A j \in 1 .. i - 1 : RequiredTools[j] \in path

\* C14: the probes run in the fixed check order formatter, static-analysis,
\* doc-style, doc-example-test generator, unit-test runner, each only after
\* every probe before it has returned zero; the probe that fails is the
\* probe of the first missing tool in that order, the failure names that
\* tool, and the failed probe is the last child of the run: the probes of
\* the tools after it are never run.
C14_FirstMissingToolIsNamed ==
    /\ \A j \in 1 .. Len(ProbeCalls) :
          ProbeCalls[j].argv = <<"which", RequiredTools[j]>>
    /\ \A i \in 1 .. Len(calls) :
          IsProbe(calls[i]) =>
              \A j \in 1 .. i - 1 : j \in Exited /\ returncodes[j] = 0
    /\ \A i \in Exited :
          ProbeFailedAt(i) =>
              /\ SomeToolMissing
              /\ i = FirstMissing
              /\ i = Len(calls)
              /\ pc = "failed"
              /\ raised[1].type = "FileNotFoundError"
              /\ raised[1].message[1] = RequiredTools[FirstMissing]
    /\ (SomeToolMissing /\ exit_status # <<>>) =>
          /\ pc = "failed"
          /\ Len(calls) = FirstMissing
          /\ raised[1].message[1] = RequiredTools[FirstMissing]

\* C14 witness: the doc-style tool and the unit-test runner are both
\* missing; the run has failed naming the doc-style tool after three probes.
C14_Witness ==
    /\ path = {"elm-format", "elm-analyse", "elm-doc-test"}
    /\ pc = "failed"
    /\ Len(calls) = 3
    /\ raised[1].message[1] = "elm-docstyle"

====
